---- MODULE Spec2Model ----
(***************************************************************************)
(* The order / payment / refund workflow of the followerApi router         *)
(* (src/routes/auth.js) over the Mongoose models Order, Payment and        *)
(* Refund.  One action per route handler; a handler runs from request to   *)
(* response in one step.  The document store is three collections keyed    *)
(* by _id; HTTP status codes are kept as the handlers send them.           *)
(***************************************************************************)
EXTENDS Integers, Sequences, FiniteSets, TLC

\* ------------------------------------------------------------------ bounds
\* How many Order documents are ever created (_id values 1..MaxOrders).
MaxOrders == 1
\* How many Refund documents the collection may hold.
MaxRefunds == 1
\* How many handlers may be suspended at an await at the same time.
MaxInFlight == 1
\* How far below zero a stored price or requiredFollowers is followed.
MaxBelowZero == 1
\* How many User documents the collection may hold.
MaxUsers == 2

\* ------------------------------------------------------------- request ids
\* A falsy id in a request body (`!orderId`).
MissingId == 0
\* A string mongoose.Types.ObjectId.isValid() rejects / that fails the cast.
MalformedId == -1
\* A well-formed ObjectId that no document was ever stored under.
UnknownId == MaxOrders + 1

\* ----------------------------------------------------------------- schemas
\* models/order.js: the enum of orderSchema.status.
OrderStatusEnum ==
  {"Pending", "Payment Pending", "In Progress", "Completed", "Cancelled",
   "Refunded", "Failed"}

\* The two status strings the refund handlers write (not in the enum).
RefundPending == "Refund Pending"
RefundRejected == "Refund Rejected"

\* models/Payment.js: the enum of PaymentSchema.paymentMethod.
PaymentMethodEnum == {"easypaisa", "jazzcash", "bankTransfer", "paypal", "googlePay"}

\* models/Payment.js and models/Refund.js: the enum of status.
ReviewStatusEnum == {"Pending", "Approved", "Rejected"}

VARIABLES
  orders,       \* Order collection: live _id -> [status, price, requiredFollowers]
  nextOrderId,  \* the _id the next created Order gets; ids are never reused
  payments,     \* Payment collection: sequence, _id = index (never deleted)
  refunds,      \* Refund collection: sequence, _id = index (never deleted)
  res,          \* the last response: [op, code, notified]
  scen,         \* observer: progress along the end-to-end scenario of spec 8
  inflight,     \* handlers suspended between their read of an order and
                \* the write that follows it: set of [op, pc, order, userId]
  log,          \* the writes and sendEmail calls, in the order they happened,
                \* of the request last followed await by await
  users         \* User collection: sequence, _id = index, of [email, name, password]

vars == <<orders, nextOrderId, payments, refunds, res, scen, inflight, log, users>>

\* ------------------------------------------------------------ store access
\* Model.findById(id): the document, when one is stored under id.
OrderExists(id) == id \in DOMAIN orders
PaymentExists(id) == id \in DOMAIN payments
RefundExists(id) == id \in DOMAIN refunds

\* Ids a client can have learnt from earlier responses, plus the three
\* kinds of id that match nothing.
AllocatedOrderIds == 1..(nextOrderId - 1)
OrderIdInputs == AllocatedOrderIds \cup {UnknownId, MissingId, MalformedId}
OrderIdParams == AllocatedOrderIds \cup {UnknownId, MalformedId}
PaymentIdParams == DOMAIN payments \cup {Len(payments) + 1, MalformedId}
RefundIdParams == DOMAIN refunds \cup {Len(refunds) + 1, MalformedId}

\* mongoose.Types.ObjectId.isValid(id)
IsValidObjectId(id) == id # MalformedId /\ id # MissingId

\* ------------------------------------------------------------ notification
\* The recipients a handler calls sendEmail for: the client always, the
\* admin when process.env.ADMIN_RECEIVING_EMAIL is set for this request.
Recipients(adminSet) == {"client"} \cup (IF adminSet THEN {"admin"} ELSE {})

\* A response: the route, the HTTP status and msg sent, and the sendEmail
\* calls the handler made on the way.
Response(op, code, msg, notified) ==
  [op |-> op, code |-> code, msg |-> msg, notified |-> notified]

\* What can happen at one sendEmail call: there is no transporter, or
\* transporter.sendMail resolves, or it rejects.
MailOutcomes == {"unconfigured", "sent", "failed"}

\* The outcomes of the sends of one request, per recipient; the transporter
\* is there for both or for neither (server.js:58-90).
Mails ==
  {[client |-> "unconfigured", admin |-> "unconfigured"]}
    \cup [client : {"sent", "failed"}, admin : {"sent", "failed"}]

\* Faulty variant: sendMail is awaited outside a try block.
SendEmailUncaught(outcome) ==
  [success |-> outcome = "sent", raised |-> outcome = "failed"]

\* sendEmail (auth.js:219-238): what the helper hands back to the handler.
SendEmail(outcome) ==
  IF outcome = "unconfigured"
    THEN [success |-> FALSE, raised |-> FALSE]
    ELSE IF outcome = "sent"
      THEN [success |-> TRUE, raised |-> FALSE]
      ELSE [success |-> FALSE, raised |-> FALSE]

\* The handler awaits each sendEmail inside its try block and only logs the
\* result: a raise would end in the catch block, anything else goes on to
\* the response.
AfterEmails(adminSet, mail, done, caught) ==
  IF \E to \in Recipients(adminSet) : SendEmail(mail[to]).raised
    THEN caught
    ELSE done

\* --------------------------------------------------------- scenario observer
\* Spec 8's scenario is one fixed run from the empty store; scen follows it
\* and leaves it ("off") at the first request that is not its next step.
Advance(from, to, isStep) == IF scen = from /\ isStep THEN to ELSE "off"

\* ------------------------------------------------------------ Order routes
\* Collection with document id set to doc / with document id removed.
Put(coll, id, doc) == [i \in DOMAIN coll \cup {id} |-> IF i = id THEN doc ELSE coll[i]]
Remove(coll, id) == [i \in DOMAIN coll \ {id} |-> coll[i]]

\* Faulty variant: the enum lacks 'Refunded'.
OrderStatusValidNoRefunded(s) == s \in OrderStatusEnum \ {"Refunded"}

\* enum validator of orderSchema.status (run by create, save, and by
\* findByIdAndUpdate only under runValidators: true).
OrderStatusValid(s) == s \in OrderStatusEnum

\* models/order.js:36-40, 73-77: `min: [1, ...]` of requiredFollowers and
\* `min: [0, ...]` of price.
OrderNumbersValid(price, followers) == price >= 0 /\ followers >= 1

\* The document createOrder hands to Order.create (auth.js:569-582).
NewOrderDoc(price, followers) ==
  [status |-> "Pending", price |-> price, requiredFollowers |-> followers]

\* POST /createOrder with the body's price and requiredFollowers.  body: "ok",
\* "missing" (a required field absent) or "invalid" (a value the schema
\* rejects); a ValidationError is answered 400.
CreateOrderWith(body, price, followers) ==
  /\ (body = "ok" /\ OrderNumbersValid(price, followers)) => nextOrderId <= MaxOrders
  /\ IF body # "ok" \/ ~OrderNumbersValid(price, followers)
       THEN /\ res' = Response("createOrder", 400,
                               IF body = "missing"
                                 THEN "Missing one or more required order fields."
                                 ELSE "Validation failed for order creation.",
                               {})
            /\ UNCHANGED <<orders, nextOrderId>>
       ELSE /\ orders' = Put(orders, nextOrderId, NewOrderDoc(price, followers))
            /\ nextOrderId' = nextOrderId + 1
            /\ \E adminSet \in BOOLEAN :
                 res' = Response("createOrder", 201,
                                 "Order placed successfully", Recipients(adminSet))
  /\ scen' = Advance("start", "created", body = "ok")
  /\ UNCHANGED <<payments, refunds>>

\* POST /createOrder for an order of one follower at price 1.
CreateOrder(body) == CreateOrderWith(body, 1, 1)

\* Faulty variant: the null result is taken for a deleted order.
DeleteOrderNotFoundUnchecked ==
  Response("deleteOrder", 200, "Order deleted successfully.", {})

\* auth.js:809-812: findById matched no Order.
DeleteOrderNotFound == Response("deleteOrder", 404, "Order not found.", {})

\* DELETE /deleteOrder/:id
DeleteOrder(id) ==
  /\ IF ~IsValidObjectId(id)
       THEN /\ res' = Response("deleteOrder", 400,
                              "Invalid order ID format.", {})
            /\ UNCHANGED orders
       ELSE IF ~OrderExists(id)
         THEN /\ res' = DeleteOrderNotFound
              /\ UNCHANGED orders
         ELSE /\ orders' = Remove(orders, id)
              /\ res' = Response("deleteOrder", 200, "Order deleted successfully.", {})
  /\ scen' = "off"
  /\ UNCHANGED <<nextOrderId, payments, refunds>>

\* What an update document does to one numeric path: nothing, $set it to
\* v, or $inc it by v.
KeepNumber == [op |-> "keep", v |-> 0]
SetNumber(v) == [op |-> "set", v |-> v]
IncNumber(v) == [op |-> "inc", v |-> v]

\* The path's value after the update.
UpdatedNumber(n, upd) ==
  IF upd.op = "set" THEN upd.v ELSE IF upd.op = "inc" THEN n + upd.v ELSE n

\* runValidators: true (auth.js:831-834): update validators run on the
\* values that are $set, before the query is sent; they do not run on $inc.
UpdateValid(u) ==
  /\ u.status # "" => OrderStatusValid(u.status)
  /\ u.price.op = "set" => OrderNumbersValid(u.price.v, 1)
  /\ u.requiredFollowers.op = "set" => OrderNumbersValid(0, u.requiredFollowers.v)

\* The order after findByIdAndUpdate(id, updates).
UpdatedOrder(o, u) ==
  [o EXCEPT !.status = IF u.status = "" THEN @ ELSE u.status,
            !.price = UpdatedNumber(@, u.price),
            !.requiredFollowers = UpdatedNumber(@, u.requiredFollowers)]

\* PATCH /updateOrder/:id with update document u (req.body), and the
\* outcomes its sendEmail calls may have.
\* u.status: the status key of req.body, "" when the body carries none.
UpdateOrderBodyWithMail(id, u, mails) ==
  /\ IF ~IsValidObjectId(id)
       THEN /\ res' = Response("updateOrder", 400,
                              "Invalid order ID format.", {})
            /\ UNCHANGED orders
       ELSE IF ~UpdateValid(u)
         THEN /\ res' = Response("updateOrder", 500,
                                "Server error updating order", {})
              /\ UNCHANGED orders
         ELSE IF ~OrderExists(id)
           THEN /\ res' = Response("updateOrder", 404,
                                  "Order not found.", {})
                /\ UNCHANGED orders
           ELSE /\ UpdatedOrder(orders[id], u).price >= -MaxBelowZero
                /\ UpdatedOrder(orders[id], u).requiredFollowers >= -MaxBelowZero
                /\ orders' = IF UpdatedOrder(orders[id], u) = orders[id] THEN orders
                             ELSE Put(orders, id, UpdatedOrder(orders[id], u))
                /\ res' \in
                     {AfterEmails(adminSet, mail,
                               Response("updateOrder", 200,
                                        "Order updated successfully", Recipients(adminSet)),
                               Response("updateOrder", 500,
                                        "Server error updating order", Recipients(adminSet))) :
                        adminSet \in BOOLEAN, mail \in mails}
  /\ scen' = "off"
  /\ UNCHANGED <<nextOrderId, payments, refunds>>

\* PATCH /updateOrder/:id with a body that carries at most a status.
StatusOnly(status) ==
  [status |-> status, price |-> KeepNumber, requiredFollowers |-> KeepNumber]

UpdateOrderWithMail(id, status, mails) ==
  UpdateOrderBodyWithMail(id, StatusOnly(status), mails)

\* PATCH /updateOrder/:id
UpdateOrder(id, status) == UpdateOrderWithMail(id, status, Mails)

\* PATCH /updateOrder/:id with update document u.
UpdateOrderBody(id, u) == UpdateOrderBodyWithMail(id, u, Mails)

\* ---------------------------------------------------------- Payment routes
\* Faulty variant: the schema of Payment declares no enum for status.
PaymentValidAnyStatus(fields, doc) ==
  /\ doc.orderId # MalformedId
  /\ fields = "ok"
  /\ doc.paymentMethod \in PaymentMethodEnum

\* Schema validation of a new Payment (Payment.create): orderId must cast to
\* an ObjectId, clientName / clientEmail / amount must satisfy their
\* validators (fields = "ok"), paymentMethod and status must be in their enums.
PaymentValid(fields, doc) ==
  /\ doc.orderId # MalformedId
  /\ fields = "ok"
  /\ doc.paymentMethod \in PaymentMethodEnum
  /\ doc.status \in ReviewStatusEnum

\* The unique index `transactionId: { unique: true }` (Payment.js:42).
TransactionIdIndexHit(doc) ==
  \E i \in DOMAIN payments : payments[i].transactionId = doc.transactionId

\* The compound unique index {transactionId, paymentMethod} (Payment.js:72).
CompoundIndexHit(doc) ==
  \E i \in DOMAIN payments :
    /\ payments[i].transactionId = doc.transactionId
    /\ payments[i].paymentMethod = doc.paymentMethod

\* Faulty variant: the collection has no unique index.
DuplicateKeyNever(doc) == FALSE

\* The insert fails with E11000 when either unique index is hit.
DuplicateKey(doc) == TransactionIdIndexHit(doc) \/ CompoundIndexHit(doc)

\* Faulty variant: the handler ignores the body's status and stores 'Pending'.
NewPaymentDocAlwaysPending(b) ==
  [orderId       |-> b.orderId,
   paymentMethod |-> b.paymentMethod,
   transactionId |-> b.transactionId,
   status        |-> "Pending"]

\* The document createPayment hands to Payment.create (auth.js:970-981).
NewPaymentDoc(b) ==
  [orderId       |-> b.orderId,
   paymentMethod |-> b.paymentMethod,
   transactionId |-> b.transactionId,
   status        |-> IF b.status = "" THEN "Pending" ELSE b.status]

\* Faulty variant: the order is written whether or not it was found.
OrdersAfterPaymentCreatedUpsert(orderId) ==
  Put(orders, orderId, [NewOrderDoc(1, 1) EXCEPT !.status = "Payment Pending"])

\* auth.js:984-995: the order, when found, is saved as "Payment Pending".
OrdersAfterPaymentCreated(orderId) ==
  IF OrderExists(orderId)
    THEN Put(orders, orderId, [orders[orderId] EXCEPT !.status = "Payment Pending"])
    ELSE orders

\* POST /createPayment, with the outcomes its sendEmail calls may have.
CreatePaymentWithMail(b, mails) ==
  /\ IF \/ b.orderId = MissingId
        \/ b.fields = "missing"
        \/ b.paymentMethod = ""
        \/ b.transactionId = ""
       THEN /\ res' = Response("createPayment", 400,
                              "Missing one or more required payment fields.", {})
            /\ UNCHANGED <<orders, payments>>
       ELSE IF ~PaymentValid(b.fields, NewPaymentDoc(b))
         THEN /\ res' = Response("createPayment", 500,
                                "Server error during payment creation", {})
              /\ UNCHANGED <<orders, payments>>
         ELSE IF DuplicateKey(NewPaymentDoc(b))
           THEN /\ res' = Response("createPayment", 409,
                                  "A payment with this transaction ID already exists for this method.",
                                  {})
                /\ UNCHANGED <<orders, payments>>
           ELSE /\ payments' = Append(payments, NewPaymentDoc(b))
                /\ orders' = OrdersAfterPaymentCreated(b.orderId)
                /\ res' \in
                     {AfterEmails(adminSet, mail,
                               Response("createPayment", 201,
                                        "Payment record created successfully",
                                        Recipients(adminSet)),
                               Response("createPayment", 500,
                                        "Server error during payment creation",
                                        Recipients(adminSet))) :
                        adminSet \in BOOLEAN, mail \in mails}
  /\ scen' = Advance("created", "paid",
                     /\ b.orderId = 1 /\ b.fields = "ok" /\ b.status = ""
                     /\ b.paymentMethod = "paypal" /\ b.transactionId = "T1")
  /\ UNCHANGED <<nextOrderId, refunds>>

\* POST /createPayment
CreatePayment(b) == CreatePaymentWithMail(b, Mails)

\* Faulty variant: the guard forgets 'Completed'.
ApprovalGuardSetNoCompleted == {"Cancelled", "Refunded", "Failed", "In Progress"}

\* auth.js:1156-1162: the statuses a payment approval leaves alone.
ApprovalGuardSet == {"Completed", "Cancelled", "Refunded", "Failed", "In Progress"}

\* Faulty variant: the order is moved on whatever the payment's status is.
OrdersAfterPaymentUpdatedAnyStatus(payment) ==
  IF /\ OrderExists(payment.orderId)
     /\ orders[payment.orderId].status \notin ApprovalGuardSet
    THEN Put(orders, payment.orderId,
             [orders[payment.orderId] EXCEPT !.status = "In Progress"])
    ELSE orders

\* auth.js:1153-1178: the effect of an updated payment on its order.
OrdersAfterPaymentUpdated(payment) ==
  IF /\ payment.status = "Approved"
     /\ OrderExists(payment.orderId)
     /\ orders[payment.orderId].status \notin ApprovalGuardSet
    THEN Put(orders, payment.orderId,
             [orders[payment.orderId] EXCEPT !.status = "In Progress"])
    ELSE orders

\* findByIdAndUpdate(id, updates): every key of the body is $set.
\* u.status = "" / u.orderId = MissingId: the body has no such key.
UpdatedPayment(p, u) ==
  [p EXCEPT !.status  = IF u.status = "" THEN @ ELSE u.status,
            !.orderId = IF u.orderId = MissingId THEN @ ELSE u.orderId]

\* Faulty variant: the null result is dereferenced and the catch block answers.
PaymentNotFoundUnchecked ==
  Response("updatePayment", 500, "Server error updating payment", {})

\* auth.js:1147-1149: findByIdAndUpdate matched no Payment.
PaymentNotFound == Response("updatePayment", 404, "Payment not found.", {})

\* PATCH /updatePayment/:id, with the outcomes its sendEmail calls may have.
UpdatePaymentWithMail(id, u, mails) ==
  /\ IF ~IsValidObjectId(id)
       THEN /\ res' = Response("updatePayment", 400,
                              "Invalid payment ID format.", {})
            /\ UNCHANGED <<orders, payments>>
       ELSE IF u.status # "" /\ u.status \notin ReviewStatusEnum
         THEN /\ res' = Response("updatePayment", 500,
                                "Server error updating payment", {})
              /\ UNCHANGED <<orders, payments>>
         ELSE IF ~PaymentExists(id)
           THEN /\ res' = PaymentNotFound
                /\ UNCHANGED <<orders, payments>>
           ELSE /\ payments' = [payments EXCEPT ![id] = UpdatedPayment(@, u)]
                /\ orders' = OrdersAfterPaymentUpdated(UpdatedPayment(payments[id], u))
                /\ res' \in
                     {AfterEmails(adminSet, mail,
                               Response("updatePayment", 200,
                                        "Payment updated successfully", Recipients(adminSet)),
                               Response("updatePayment", 500,
                                        "Server error updating payment", Recipients(adminSet))) :
                        adminSet \in BOOLEAN, mail \in mails}
  /\ scen' = Advance("paid", "approved",
                     id = 1 /\ u.status = "Approved" /\ u.orderId = MissingId)
  /\ UNCHANGED <<nextOrderId, refunds>>

\* PATCH /updatePayment/:id
UpdatePayment(id, u) == UpdatePaymentWithMail(id, u, Mails)

\* ----------------------------------------------------------- Refund routes
\* What `doc.path` yields for a path the schema does not declare.
Undefined == "undefined"

\* Faulty variant: the order document carries a userId.
OrderUserIdStored(order) == "u1"

\* `order.userId` (auth.js:70): orderSchema declares no userId path.
OrderUserId(order) == Undefined

\* Schema validation of a new Refund: userId is `required: true`
\* (the other required paths were checked present by the handler).
RefundValid(doc) == doc.userId # Undefined

\* Faulty variant: the handler does not look at the order's status.
AlreadyRefundedNever(order) == FALSE

\* auth.js:63: the refund request is refused for a refunded order.
AlreadyRefunded(order) == order.status = "Refunded"

\* The document refundRequests hands to Refund.create (auth.js:69-77).
NewRefundDoc(orderId) ==
  [userId  |-> OrderUserId(orders[orderId]),
   orderId |-> orderId,
   status  |-> "Pending"]

\* Faulty variant: the null order is dereferenced and the catch block answers.
RefundOrderNotFoundUnchecked ==
  Response("refundRequests", 500, "Server error during refund request", {})

\* auth.js:86-92: the catch block's answer; msg carries the body's msg and
\* the kind of err.message that follows it.
RefundCastError ==
  Response("refundRequests", 500, "Server error during refund request: CastError", {})
RefundValidationError ==
  Response("refundRequests", 500, "Server error during refund request: ValidationError", {})

\* auth.js:60-62: findById matched no Order.
RefundOrderNotFound == Response("refundRequests", 404, "Order not found.", {})

\* POST /refundRequests.  fields: "ok", or "missing" when clientEmail,
\* clientName, amount or reason is falsy.
RefundRequest(b) ==
  /\ IF b.orderId = MissingId \/ b.fields = "missing"
       THEN /\ res' = Response("refundRequests", 400,
                              "All refund request fields are required.", {})
            /\ UNCHANGED <<orders, refunds>>
       ELSE IF b.orderId = MalformedId
         THEN /\ res' = RefundCastError
              /\ UNCHANGED <<orders, refunds>>
         ELSE IF ~OrderExists(b.orderId)
           THEN /\ res' = RefundOrderNotFound
                /\ UNCHANGED <<orders, refunds>>
           ELSE IF AlreadyRefunded(orders[b.orderId])
             THEN res' = Response("refundRequests", 409,
                                  "This order has already been refunded.", {})
                  /\ UNCHANGED <<orders, refunds>>
             ELSE IF ~RefundValid(NewRefundDoc(b.orderId))
               THEN res' = RefundValidationError
                    /\ UNCHANGED <<orders, refunds>>
               ELSE /\ Len(refunds) < MaxRefunds
                    /\ refunds' = Append(refunds, NewRefundDoc(b.orderId))
                    /\ orders' = Put(orders, b.orderId,
                                     [orders[b.orderId] EXCEPT !.status = RefundPending])
                    /\ res' = Response("refundRequests", 201,
                                       "Refund request submitted successfully!", {})
  /\ scen' = IF scen = "approved" /\ b.orderId = 1 /\ b.fields = "ok"
               THEN "refundRequested"
               ELSE Advance("refundReviewed", "refundAgain",
                            b.orderId = 1 /\ b.fields = "ok")
  /\ UNCHANGED <<nextOrderId, payments>>

\* Faulty variant: the handler accepts any status.
RefundStatusAllowedAny(status) == TRUE

\* auth.js:123: the statuses a refund review may set.
RefundStatusAllowed(status) == status \in {"Approved", "Rejected"}

\* Faulty variant: both branches write 'Refunded'.
OrderStatusForRefundAlwaysRefunded(status) == "Refunded"

\* auth.js:140-162: the status the review writes to the order.
OrderStatusForRefund(status) ==
  IF status = "Approved" THEN "Refunded" ELSE RefundRejected

\* Order.findByIdAndUpdate(refundRequest.orderId, {status}) without
\* runValidators: the enum is not checked; no document matches when the
\* populated order is null.
OrdersAfterRefundReviewed(refund, status) ==
  IF OrderExists(refund.orderId)
    THEN Put(orders, refund.orderId,
             [orders[refund.orderId] EXCEPT !.status = OrderStatusForRefund(status)])
    ELSE orders

\* auth.js:158, 176: sendEmail is called without await and the promise is
\* dropped; the handler goes on to the response whatever becomes of it.
FireAndForget(result, done) == done

\* PATCH /updateRefund/:id, with the outcomes its sendEmail call may have.
\* With the order deleted, populate("orderId")
\* yields null and the email template's `refundRequest.orderId._id` throws
\* after both writes: 500, no sendEmail call.
UpdateRefundWithMail(id, status, mails) ==
  /\ IF ~IsValidObjectId(id)
       THEN res' = Response("updateRefund", 400, "Invalid refund ID format.", {})
            /\ UNCHANGED <<orders, refunds>>
       ELSE IF ~RefundStatusAllowed(status)
         THEN res' = Response("updateRefund", 400, "Invalid status provided.", {})
              /\ UNCHANGED <<orders, refunds>>
         ELSE IF ~RefundExists(id)
           THEN /\ res' = Response("updateRefund", 404,
                                  "Refund request not found.", {})
                /\ UNCHANGED <<orders, refunds>>
           ELSE /\ refunds' = [refunds EXCEPT ![id].status = status]
                /\ orders' = OrdersAfterRefundReviewed(refunds[id], status)
                /\ res' \in
                     {IF OrderExists(refunds[id].orderId)
                        THEN FireAndForget(SendEmail(mail.client),
                               Response("updateRefund", 200,
                                        "Refund request updated", {"client"}))
                        ELSE Response("updateRefund", 500,
                                      "Server error updating refund request", {}) :
                      mail \in mails}
  /\ scen' = Advance("refundRequested", "refundReviewed", id = 1 /\ status = "Approved")
  /\ UNCHANGED <<nextOrderId, payments>>

\* PATCH /updateRefund/:id
UpdateRefund(id, status) == UpdateRefundWithMail(id, status, Mails)

\* ------------------------------------------------------------- User routes
\* bcrypt.hash(p, 10): a stored password is the hash of a text or, when it
\* was written without hashing, the text itself.
Hash(p) == [hashed |-> TRUE, text |-> p]
Plain(p) == [hashed |-> FALSE, text |-> p]

\* bcrypt.compare(p, stored): true for the hash of p, false for any other
\* hash and for a string that is no hash.
PasswordMatches(p, stored) == stored.hashed /\ stored.text = p

\* POST /signup (auth.js:243-309).  "" stands for an absent field.
Signup(email, password) ==
  /\ IF email = "" \/ password = ""
       THEN /\ res' = Response("signup", 400,
                               "Please provide all required fields: name, email, password, role.",
                               {})
            /\ UNCHANGED users
       ELSE IF \E i \in DOMAIN users : users[i].email = email
         THEN /\ res' = Response("signup", 409,
                                 "User with this email already exists.", {})
              /\ UNCHANGED users
         ELSE /\ Len(users) < MaxUsers
              /\ users' = Append(users, [email |-> email, name |-> "n1",
                                         password |-> Hash(password)])
              /\ res' = Response("signup", 201, "User registered successfully", {"client"})
  /\ scen' = "off"
  /\ UNCHANGED <<orders, nextOrderId, payments, refunds, inflight, log>>

\* The user after findByIdAndUpdate(id, otherUpdates): every key of the body
\* other than oldPassword and newPassword is $set as it is.
UpdatedUser(user, b) ==
  [user EXCEPT !.name = IF b.name = "" THEN @ ELSE b.name,
               !.password = IF b.password = "" THEN @ ELSE Plain(b.password)]

\* PATCH /update/:id (auth.js:418-463).  b: the body's oldPassword,
\* newPassword, and the keys name and password among its other keys;
\* "" stands for an absent key.
UpdateUser(id, b) ==
  /\ IF ~IsValidObjectId(id)
       THEN /\ res' = Response("update", 400, "Invalid user ID format.", {})
            /\ UNCHANGED users
       ELSE IF id \notin DOMAIN users
         THEN /\ res' = Response("update", 404, "User not found.", {})
              /\ UNCHANGED users
         ELSE IF b.oldPassword # "" /\ b.newPassword # ""
           THEN IF ~PasswordMatches(b.oldPassword, users[id].password)
                  THEN /\ res' = Response("update", 400,
                                          "Incorrect current password.", {})
                       /\ UNCHANGED users
                  ELSE IF b.name = "" /\ b.password = ""
                    THEN /\ users' = [users EXCEPT ![id].password = Hash(b.newPassword)]
                         /\ res' = Response("update", 200,
                                            "Password updated successfully.", {})
                    ELSE /\ users' = [users EXCEPT ![id] =
                                        UpdatedUser([@ EXCEPT !.password = Hash(b.newPassword)], b)]
                         /\ res' = Response("update", 200,
                                            "User updated successfully", {})
           ELSE /\ users' = [users EXCEPT ![id] = UpdatedUser(@, b)]
                /\ res' = Response("update", 200, "User updated successfully", {})
  /\ scen' = "off"
  /\ UNCHANGED <<orders, nextOrderId, payments, refunds, inflight, log>>

\* ------------------------------------------------- handlers across awaits
\* A handler is suspended at every await, and another request's write may
\* land in the database before it resumes.  The two handlers below decide
\* on an order they read at one await and write at a later one.

\* A suspended handler: its route, the await it resumes at, the order it
\* read and what it took from it.
Suspended(op, pc, order, userId) ==
  [op |-> op, pc |-> pc, order |-> order, userId |-> userId]

MaySuspend == Cardinality(inflight) < MaxInFlight

\* PATCH /updatePayment/:id up to `await orderToUpdate.save()` (auth.js:
\* 1142-1164), in the case that reaches it: the Payment is updated, the
\* order is read and passes the guard, "In Progress" is set in memory.
UpdatePaymentRead(id, u) ==
  /\ MaySuspend
  /\ IsValidObjectId(id)
  /\ u.status \in ReviewStatusEnum \cup {""}
  /\ PaymentExists(id)
  /\ LET p == UpdatedPayment(payments[id], u)
     IN  /\ p.status = "Approved"
         /\ OrderExists(p.orderId)
         /\ orders[p.orderId].status \notin ApprovalGuardSet
         /\ payments' = [payments EXCEPT ![id] = p]
         /\ inflight' = inflight \cup {Suspended("updatePayment", "save", p.orderId, "")}
  /\ scen' = "off"
  /\ UNCHANGED <<orders, nextOrderId, refunds, res>>

\* The rest of the handler: save() sends $set {status: "In Progress"} for
\* the order's _id, then the emails and the response.  When the order was
\* deleted meanwhile, save() matches nothing: it raises
\* DocumentNotFoundError (500) or passes silently, by Mongoose version.
UpdatePaymentSave(h) ==
  /\ h.op = "updatePayment"
  /\ inflight' = inflight \ {h}
  /\ IF OrderExists(h.order)
       THEN /\ orders' = Put(orders, h.order,
                             [orders[h.order] EXCEPT !.status = "In Progress"])
            /\ \E adminSet \in BOOLEAN :
                 res' = Response("updatePayment", 200,
                                 "Payment updated successfully", Recipients(adminSet))
       ELSE /\ UNCHANGED orders
            /\ \/ res' = Response("updatePayment", 500,
                                  "Server error updating payment", {})
               \/ \E adminSet \in BOOLEAN :
                    res' = Response("updatePayment", 200,
                                    "Payment updated successfully", Recipients(adminSet))
  /\ scen' = "off"
  /\ UNCHANGED <<nextOrderId, payments, refunds>>

\* POST /refundRequests up to `await Refund.create` (auth.js:51-69), in the
\* case that reaches it: the order is found and is not 'Refunded'.
RefundRequestRead(b) ==
  /\ MaySuspend
  /\ b.fields = "ok"
  /\ IsValidObjectId(b.orderId)
  /\ OrderExists(b.orderId)
  /\ ~AlreadyRefunded(orders[b.orderId])
  /\ inflight' = inflight \cup
       {Suspended("refundRequests", "create", b.orderId, OrderUserId(orders[b.orderId]))}
  /\ scen' = "off"
  /\ UNCHANGED <<orders, nextOrderId, payments, refunds, res>>

\* The rest of the handler, one await at a time: Refund.create (auth.js:
\* 69-77), then Order.findByIdAndUpdate and the response (auth.js:80-85).
RefundRequestContinue(h) ==
  /\ h.op = "refundRequests"
  /\ LET doc == [userId |-> h.userId, orderId |-> h.order, status |-> "Pending"]
     IN  IF h.pc = "create"
           THEN IF ~RefundValid(doc)
                  THEN /\ res' = RefundValidationError
                       /\ inflight' = inflight \ {h}
                       /\ UNCHANGED <<orders, refunds>>
                  ELSE /\ Len(refunds) < MaxRefunds
                       /\ refunds' = Append(refunds, doc)
                       /\ inflight' = (inflight \ {h}) \cup {[h EXCEPT !.pc = "update"]}
                       /\ UNCHANGED <<orders, res>>
           ELSE /\ orders' = IF OrderExists(h.order)
                               THEN Put(orders, h.order,
                                        [orders[h.order] EXCEPT !.status = RefundPending])
                               ELSE orders
                /\ res' = Response("refundRequests", 201,
                                   "Refund request submitted successfully!", {})
                /\ inflight' = inflight \ {h}
                /\ UNCHANGED refunds
  /\ scen' = "off"
  /\ UNCHANGED <<nextOrderId, payments>>

\* ------------------------------------------------ handlers await by await
\* The three handlers that write an order and then notify, followed one
\* await at a time.  One such request is followed at a time; requests
\* handled in one step may land between two of its awaits.

\* Entries of log: a committed write of a document, a started sendEmail call.
Wrote(doc) == [kind |-> "write", what |-> doc]
Sent(to) == [kind |-> "send", what |-> to]

\* Faulty variant: the helper calls sendMail a second time.
LogSendWithRetry(l, to) == l \o <<Sent(to), Sent(to)>>

\* sendEmail (auth.js:219-238): one transporter.sendMail call, no loop.
LogSend(l, to) == Append(l, Sent(to))

\* The recipients of the sendEmail calls in l.
Notified(l) == {l[i].what : i \in {j \in DOMAIN l : l[j].kind = "send"}}

\* The followed handler between two awaits: its route, the await it resumes
\* at, the order id it holds (MissingId: null) and the status it is to write.
Followed(op, pc, order, status) ==
  [op |-> op, pc |-> pc, order |-> order, status |-> status]

\* The body passes the handler's checks, the schema and the unique indexes.
CreatePaymentAccepted(b) ==
  /\ b.orderId # MissingId
  /\ b.fields # "missing"
  /\ b.paymentMethod # ""
  /\ b.transactionId # ""
  /\ PaymentValid(b.fields, NewPaymentDoc(b))
  /\ ~DuplicateKey(NewPaymentDoc(b))

\* POST /createPayment up to the end of `await Payment.create` (auth.js:
\* 942-981), for a body that is stored.
CreatePaymentStart(b) ==
  /\ inflight = {}
  /\ CreatePaymentAccepted(b)
  /\ payments' = Append(payments, NewPaymentDoc(b))
  /\ inflight' = {Followed("createPayment", "findOrder", b.orderId, "Payment Pending")}
  /\ log' = <<Wrote("payment")>>
  /\ scen' = "off"
  /\ UNCHANGED <<orders, nextOrderId, refunds, res>>

\* An awaited sendEmail call to one recipient: the call is logged; a raise
\* ends the handler in its catch block, anything else moves it on.
AwaitedSend(h, to, next, caught) ==
  /\ log' = LogSend(log, to)
  /\ \E outcome \in MailOutcomes :
       IF SendEmail(outcome).raised
         THEN /\ inflight' = {}
              /\ res' = Response(h.op, 500, caught, Notified(log'))
         ELSE /\ inflight' = {[h EXCEPT !.pc = next]}
              /\ UNCHANGED res

\* `await orderToUpdate.save()`: $set {status} on the order's _id.  With the
\* order deleted since it was read the update matches nothing: save() raises
\* DocumentNotFoundError or passes silently, by Mongoose version.
AwaitedSave(h, next, caught) ==
  IF OrderExists(h.order)
    THEN /\ orders' = Put(orders, h.order, [orders[h.order] EXCEPT !.status = h.status])
         /\ log' = Append(log, Wrote("order"))
         /\ inflight' = {[h EXCEPT !.pc = next]}
         /\ UNCHANGED res
    ELSE /\ UNCHANGED <<orders, log>>
         /\ \/ /\ inflight' = {}
               /\ res' = Response(h.op, 500, caught, {})
            \/ /\ inflight' = {[h EXCEPT !.pc = next]}
               /\ UNCHANGED res

\* The admin's mail when ADMIN_RECEIVING_EMAIL is set, then the response.
AdminSendAndRespond(h, code, done, caught) ==
  \E adminSet \in BOOLEAN, outcome \in MailOutcomes :
    /\ log' = IF adminSet THEN LogSend(log, "admin") ELSE log
    /\ inflight' = {}
    /\ res' = IF adminSet /\ SendEmail(outcome).raised
                THEN Response(h.op, 500, caught, Notified(log'))
                ELSE Response(h.op, code, done, Notified(log'))

\* The rest of createPayment, one await at a time (auth.js:984-1077):
\* Order.findById, save, the client's mail, the admin's mail and the response.
CreatePaymentStep(h) ==
  /\ h.op = "createPayment"
  /\ CASE h.pc = "findOrder" ->
            /\ inflight' = {[h EXCEPT !.pc = IF OrderExists(h.order) THEN "save" ELSE "client"]}
            /\ UNCHANGED <<orders, res, log>>
       [] h.pc = "save" ->
            AwaitedSave(h, "client", "Server error during payment creation")
       [] h.pc = "client" ->
            /\ AwaitedSend(h, "client", "admin", "Server error during payment creation")
            /\ UNCHANGED orders
       [] h.pc = "admin" ->
            /\ AdminSendAndRespond(h, 201, "Payment record created successfully",
                                   "Server error during payment creation")
            /\ UNCHANGED orders
  /\ scen' = "off"
  /\ UNCHANGED <<nextOrderId, payments, refunds>>

\* PATCH /updatePayment/:id up to the end of `await Payment.findByIdAndUpdate`
\* (auth.js:1134-1153), for a request that updates a Payment.
UpdatePaymentStart(id, u) ==
  /\ inflight = {}
  /\ IsValidObjectId(id)
  /\ u.status \in ReviewStatusEnum \cup {""}
  /\ PaymentExists(id)
  /\ LET p == UpdatedPayment(payments[id], u)
     IN  /\ payments' = [payments EXCEPT ![id] = p]
         /\ inflight' = {Followed("updatePayment",
                                  IF p.status = "Approved" THEN "findOrder" ELSE "client",
                                  p.orderId, "In Progress")}
  /\ log' = <<Wrote("payment")>>
  /\ scen' = "off"
  /\ UNCHANGED <<orders, nextOrderId, refunds, res>>

\* The rest of updatePayment, one await at a time (auth.js:1154-1300).
UpdatePaymentStep(h) ==
  /\ h.op = "updatePayment"
  /\ CASE h.pc = "findOrder" ->
            /\ inflight' = {[h EXCEPT !.pc =
                               IF /\ OrderExists(h.order)
                                  /\ orders[h.order].status \notin ApprovalGuardSet
                                 THEN "save" ELSE "client"]}
            /\ UNCHANGED <<orders, res, log>>
       [] h.pc = "save" ->
            AwaitedSave(h, "client", "Server error updating payment")
       [] h.pc = "client" ->
            /\ AwaitedSend(h, "client", "admin", "Server error updating payment")
            /\ UNCHANGED orders
       [] h.pc = "admin" ->
            /\ AdminSendAndRespond(h, 200, "Payment updated successfully",
                                   "Server error updating payment")
            /\ UNCHANGED orders
  /\ scen' = "off"
  /\ UNCHANGED <<nextOrderId, payments, refunds>>

\* PATCH /updateRefund/:id up to the end of `await Refund.findByIdAndUpdate(
\* ...).populate("orderId")` (auth.js:114-133), for a request that updates a
\* Refund; the populated orderId is null when the order is gone.
UpdateRefundStart(id, status) ==
  /\ inflight = {}
  /\ IsValidObjectId(id)
  /\ RefundStatusAllowed(status)
  /\ RefundExists(id)
  /\ refunds' = [refunds EXCEPT ![id].status = status]
  /\ inflight' = {Followed("updateRefund", "updateOrder",
                           IF OrderExists(refunds[id].orderId)
                             THEN refunds[id].orderId ELSE MissingId,
                           OrderStatusForRefund(status))}
  /\ log' = <<Wrote("refund")>>
  /\ scen' = "off"
  /\ UNCHANGED <<orders, nextOrderId, payments, res>>

\* The rest of updateRefund (auth.js:140-179): the awaited
\* Order.findByIdAndUpdate; then the template, which throws on a null
\* orderId, the sendEmail call that is not awaited, and the response.
UpdateRefundStep(h) ==
  /\ h.op = "updateRefund"
  /\ CASE h.pc = "updateOrder" ->
            /\ IF OrderExists(h.order)
                 THEN /\ orders' = Put(orders, h.order,
                                       [orders[h.order] EXCEPT !.status = h.status])
                      /\ log' = Append(log, Wrote("order"))
                 ELSE UNCHANGED <<orders, log>>
            /\ inflight' = {[h EXCEPT !.pc = "client"]}
            /\ UNCHANGED res
       [] h.pc = "client" ->
            /\ inflight' = {}
            /\ IF h.order = MissingId
                 THEN /\ res' = Response("updateRefund", 500,
                                         "Server error updating refund request", {})
                      /\ UNCHANGED log
                 ELSE /\ log' = LogSend(log, "client")
                      /\ res' = FireAndForget(SendEmail("sent"),
                                  Response("updateRefund", 200,
                                           "Refund request updated", Notified(log')))
            /\ UNCHANGED orders
  /\ scen' = "off"
  /\ UNCHANGED <<nextOrderId, payments, refunds>>

\* ------------------------------------------------------------------ inputs
OrderBodies == {"ok", "missing", "invalid"}

OrderStatusInputs == OrderStatusEnum \cup {RefundPending, "Bogus", ""}

\* price and requiredFollowers of a createOrder body.
OrderNumberInputs == {-1, 0, 1}

\* What an updateOrder body does to price and to requiredFollowers.
NumberUpdates == {KeepNumber, IncNumber(-1)} \cup {SetNumber(v) : v \in OrderNumberInputs}

\* updateOrder bodies: a status or none, and one update per numeric path.
OrderUpdates ==
  [status : {"", "Completed", "Bogus"},
   price : NumberUpdates,
   requiredFollowers : NumberUpdates]

\* signup bodies and update bodies of the User routes.
EmailInputs == {"e1", "e2", ""}
PasswordInputs == {"p1", "p2", ""}
UserIdParams == DOMAIN users \cup {Len(users) + 1, MalformedId}
UserUpdates ==
  [oldPassword : PasswordInputs,
   newPassword : PasswordInputs,
   name        : {"", "n2"},
   password    : PasswordInputs]

\* How many parts of a createPayment body are absent or invalid.
PaymentBodyDefects(b) ==
    (IF b.orderId \in {MissingId, MalformedId} THEN 1 ELSE 0)
  + (IF b.fields # "ok" THEN 1 ELSE 0)
  + (IF b.paymentMethod \notin PaymentMethodEnum THEN 1 ELSE 0)
  + (IF b.transactionId = "" THEN 1 ELSE 0)
  + (IF b.status # "" /\ b.status \notin ReviewStatusEnum THEN 1 ELSE 0)

\* createPayment bodies with nothing absent or invalid; the status key is
\* optional.
WellFormedPaymentBodies ==
  [orderId       : AllocatedOrderIds \cup {UnknownId},
   fields        : {"ok"},
   paymentMethod : {"paypal", "easypaisa"},
   transactionId : {"T1"},
   status        : {"", "Approved"}]

\* The bodies that differ from body w in the one part named.
OneDefect(w) ==
     {[w EXCEPT !.orderId = i] : i \in {MissingId, MalformedId}}
  \cup {[w EXCEPT !.fields = f] : f \in {"missing", "invalid"}}
  \cup {[w EXCEPT !.paymentMethod = m] : m \in {"bitcoin", ""}}
  \cup {[w EXCEPT !.transactionId = ""]}
  \cup {[w EXCEPT !.status = "Bogus"]}

\* createPayment bodies: every well-formed one, and every one with a single
\* absent or invalid part (and then no status key of its own).
PaymentBodies ==
  WellFormedPaymentBodies
    \cup UNION {OneDefect(w) : w \in {x \in WellFormedPaymentBodies : x.status = ""}}

PaymentUpdates ==
  [status  : {"", "Pending", "Approved", "Rejected", "Bogus"},
   orderId : AllocatedOrderIds \cup {UnknownId, MissingId}]

RefundBodies == [orderId : OrderIdInputs, fields : {"ok", "missing"}]

RefundStatusInputs == {"Approved", "Rejected", "Pending", "Bogus", ""}

\* updatePayment bodies the validators accept.
NotifiedPaymentUpdates ==
  [status  : {"", "Pending", "Approved", "Rejected"},
   orderId : AllocatedOrderIds \cup {UnknownId, MissingId}]

\* Requests of the interleaved runs: accepted bodies only.
RaceOrderStatusInputs == {"Completed", "Cancelled", "Refunded", "Failed"}
RacePaymentBodies ==
  {b \in WellFormedPaymentBodies :
     b.status = "" /\ b.paymentMethod = "paypal" /\ b.orderId \in AllocatedOrderIds}
RacePaymentUpdates == [status : {"Approved", "Rejected"}, orderId : {MissingId}]
RaceRefundBodies == [orderId : AllocatedOrderIds, fields : {"ok"}]

\* ------------------------------------------------------------ specification
\* The store as first deployed: empty collections.
Init ==
  /\ orders = <<>>
  /\ nextOrderId = 1
  /\ payments = <<>>
  /\ refunds = <<>>
  /\ res = Response("none", 0, "", {})
  /\ scen = "start"
  /\ inflight = {}
  /\ log = <<>>
  /\ users = <<>>

\* A store that already holds an order and a refund request filed for it
\* (a Refund document whose userId was set).
InitSeeded ==
  /\ orders = (1 :> NewOrderDoc(1, 1))
  /\ nextOrderId = 2
  /\ payments = <<>>
  /\ refunds = <<[userId |-> "u1", orderId |-> 1, status |-> "Pending"]>>
  /\ res = Response("none", 0, "", {})
  /\ scen = "off"
  /\ inflight = {}
  /\ log = <<>>
  /\ users = <<>>

\* Every request is handled from its first line to its response with no
\* other request's write in between.
Next ==
  \/ \E body \in OrderBodies : CreateOrder(body) /\ UNCHANGED <<inflight, log, users>>
  \/ \E id \in OrderIdParams : DeleteOrder(id) /\ UNCHANGED <<inflight, log, users>>
  \/ \E id \in OrderIdParams, status \in OrderStatusInputs :
       UpdateOrder(id, status) /\ UNCHANGED <<inflight, log, users>>
  \/ \E b \in PaymentBodies : CreatePayment(b) /\ UNCHANGED <<inflight, log, users>>
  \/ \E id \in PaymentIdParams, u \in PaymentUpdates :
       UpdatePayment(id, u) /\ UNCHANGED <<inflight, log, users>>
  \/ \E b \in RefundBodies : RefundRequest(b) /\ UNCHANGED <<inflight, log, users>>
  \/ \E id \in RefundIdParams, status \in RefundStatusInputs :
       UpdateRefund(id, status) /\ UNCHANGED <<inflight, log, users>>

Spec == Init /\ [][Next]_vars

SpecSeeded == InitSeeded /\ [][Next]_vars

\* Requests handled concurrently: a handler may be suspended between its
\* read of an order and its write while other requests run to completion.
NextRace ==
  \/ CreateOrder("ok") /\ UNCHANGED <<inflight, log, users>>
  \/ \E id \in AllocatedOrderIds : DeleteOrder(id) /\ UNCHANGED <<inflight, log, users>>
  \/ \E id \in AllocatedOrderIds, status \in RaceOrderStatusInputs :
       UpdateOrder(id, status) /\ UNCHANGED <<inflight, log, users>>
  \/ \E b \in RacePaymentBodies : CreatePayment(b) /\ UNCHANGED <<inflight, log, users>>
  \/ \E id \in DOMAIN payments, u \in RacePaymentUpdates :
       UpdatePayment(id, u) /\ UNCHANGED <<inflight, log, users>>
  \/ \E b \in RaceRefundBodies : RefundRequest(b) /\ UNCHANGED <<inflight, log, users>>
  \/ \E id \in RefundIdParams \ {MalformedId}, status \in {"Approved", "Rejected"} :
       UpdateRefund(id, status) /\ UNCHANGED <<inflight, log, users>>
  \/ \E id \in DOMAIN payments, u \in RacePaymentUpdates : UpdatePaymentRead(id, u) /\ UNCHANGED <<log, users>>
  \/ \E h \in inflight : UpdatePaymentSave(h) /\ UNCHANGED <<log, users>>
  \/ \E b \in RaceRefundBodies : RefundRequestRead(b) /\ UNCHANGED <<log, users>>
  \/ \E h \in inflight : RefundRequestContinue(h) /\ UNCHANGED <<log, users>>

SpecRace == Init /\ [][NextRace]_vars

\* The requests that can get as far as their notification, and the creation
\* and deletion of orders, over the store that holds an order and a refund.
NextNotified ==
  \/ \E body \in OrderBodies : CreateOrder(body) /\ UNCHANGED <<inflight, log, users>>
  \/ \E id \in AllocatedOrderIds : DeleteOrder(id) /\ UNCHANGED <<inflight, log, users>>
  \/ \E id \in AllocatedOrderIds, status \in OrderStatusEnum \cup {""} :
       UpdateOrder(id, status) /\ UNCHANGED <<inflight, log, users>>
  \/ \E b \in WellFormedPaymentBodies : CreatePayment(b) /\ UNCHANGED <<inflight, log, users>>
  \/ \E id \in DOMAIN payments, u \in NotifiedPaymentUpdates :
       UpdatePayment(id, u) /\ UNCHANGED <<inflight, log, users>>
  \/ \E id \in DOMAIN refunds, status \in {"Approved", "Rejected"} :
       UpdateRefund(id, status) /\ UNCHANGED <<inflight, log, users>>

SpecNotified == InitSeeded /\ [][NextNotified]_vars

\* One notifying request followed await by await over the store that holds
\* an order and a refund, with deletions and manual updates of the order
\* handled in one step in between.
NextSteps ==
  \/ \E id \in AllocatedOrderIds : DeleteOrder(id) /\ UNCHANGED <<inflight, log, users>>
  \/ \E id \in AllocatedOrderIds, status \in {"Completed", RefundPending} :
       UpdateOrder(id, status) /\ UNCHANGED <<inflight, log, users>>
  \/ \E b \in PaymentBodies : CreatePayment(b) /\ UNCHANGED <<inflight, log, users>>
  \/ \E b \in RefundBodies : RefundRequest(b) /\ UNCHANGED <<inflight, log, users>>
  \/ \E b \in WellFormedPaymentBodies : CreatePaymentStart(b) /\ UNCHANGED users
  \/ \E h \in inflight : CreatePaymentStep(h) /\ UNCHANGED users
  \/ \E id \in DOMAIN payments, u \in NotifiedPaymentUpdates : UpdatePaymentStart(id, u) /\ UNCHANGED users
  \/ \E h \in inflight : UpdatePaymentStep(h) /\ UNCHANGED users
  \/ \E id \in DOMAIN refunds, status \in {"Approved", "Rejected"} : UpdateRefundStart(id, status) /\ UNCHANGED users
  \/ \E h \in inflight : UpdateRefundStep(h) /\ UNCHANGED users

SpecSteps == InitSeeded /\ [][NextSteps]_vars

\* Order creations and manual order updates alone, with the numbers and the
\* update operators a request body can carry.
NextOrderFields ==
  \/ \E body \in OrderBodies, price \in OrderNumberInputs, followers \in OrderNumberInputs :
       CreateOrderWith(body, price, followers) /\ UNCHANGED <<inflight, log, users>>
  \/ \E id \in OrderIdParams, u \in OrderUpdates :
       UpdateOrderBody(id, u) /\ UNCHANGED <<inflight, log, users>>

SpecOrderFields == Init /\ [][NextOrderFields]_vars

\* Manual order updates with every status input, between refund reviews and
\* payment approvals that move the order, over the store that holds an
\* order and a refund.
NextManual ==
  \/ \E id \in OrderIdParams, status \in OrderStatusInputs :
       UpdateOrder(id, status) /\ UNCHANGED <<inflight, log, users>>
  \/ \E b \in RacePaymentBodies : CreatePayment(b) /\ UNCHANGED <<inflight, log, users>>
  \/ \E id \in DOMAIN payments, u \in RacePaymentUpdates :
       UpdatePayment(id, u) /\ UNCHANGED <<inflight, log, users>>
  \/ \E id \in DOMAIN refunds, status \in {"Approved", "Rejected"} :
       UpdateRefund(id, status) /\ UNCHANGED <<inflight, log, users>>

SpecManual == InitSeeded /\ [][NextManual]_vars

\* The User routes alone.
NextUsers ==
  \/ \E email \in EmailInputs, password \in PasswordInputs : Signup(email, password)
  \/ \E id \in UserIdParams, b \in UserUpdates : UpdateUser(id, b)

SpecUsers == Init /\ [][NextUsers]_vars

\* ------------------------------------------------------------------ claims
\* Vocabulary of the claims, stated on the store alone.
\* A stored Payment has this transactionId and this paymentMethod.
PairStored(txn, method) ==
  \E i \in DOMAIN payments :
    payments[i].transactionId = txn /\ payments[i].paymentMethod = method

\* The body carries every required field, each with a value its schema accepts.
WellFormedPayment(b) == PaymentBodyDefects(b) = 0

\* The guard set of the payment approval as the specification lists it.
FinishedOrActive == {"Completed", "Cancelled", "Refunded", "Failed", "In Progress"}

\* C1: a well-formed payment submission that references an existing order
\* and whose (transactionId, paymentMethod) pair is not stored succeeds, and
\* the order is 'Payment Pending' afterwards, whatever it was before.
C1_FreshPairSubmissionSucceeds ==
  [][\A b \in PaymentBodies :
       (/\ WellFormedPayment(b)
        /\ OrderExists(b.orderId)
        /\ ~PairStored(b.transactionId, b.paymentMethod)
        /\ CreatePayment(b))
       => /\ res'.code = 201
          /\ orders'[b.orderId].status = "Payment Pending"]_vars

C3_DuplicateIffPairStored ==
  [][\A b \in PaymentBodies :
       (WellFormedPayment(b) /\ CreatePayment(b))
       => (res'.code = 409 <=> PairStored(b.transactionId, b.paymentMethod))]_vars

\* C4: a submission whose (transactionId, paymentMethod) pair is stored adds
\* no Payment and changes no Order; a well-formed one is answered 409 Conflict.
C4_DuplicatePairRefused ==
  [][(res'.op = "createPayment" /\ payments # <<>>) =>
       \A b \in PaymentBodies :
         (PairStored(b.transactionId, b.paymentMethod) /\ CreatePayment(b))
         => /\ payments' = payments
            /\ orders' = orders
            /\ res'.code # 201
            /\ WellFormedPayment(b) => res'.code = 409]_vars

\* A duplicate was refused with 409 and the order it names kept a status
\* other than 'Payment Pending'.
C4_Witness ==
  /\ res.op = "createPayment" /\ res.code = 409
  /\ payments # <<>>
  /\ OrderExists(payments[1].orderId)
  /\ orders[payments[1].orderId].status = "Completed"

\* C5: a payment review with status Approved moves the referenced order to
\* 'In Progress' unless its status is Completed, Cancelled, Refunded, Failed
\* or In Progress, and then leaves it as it is; the status it leaves is one
\* a second approval does not change.
C5_ApprovalGuard ==
  [][\A id \in PaymentIdParams, u \in PaymentUpdates :
       (/\ u.status = "Approved"
        /\ UpdatePayment(id, u)
        /\ res'.code = 200
        /\ OrderExists(payments'[id].orderId))
       => LET o == payments'[id].orderId
          IN  /\ orders[o].status \notin FinishedOrActive
                   => orders'[o].status = "In Progress"
              /\ orders[o].status \in FinishedOrActive
                   => orders'[o].status = orders[o].status
              /\ orders'[o].status \in FinishedOrActive
              /\ \A other \in DOMAIN orders \ {o} : orders'[other] = orders[other]]_vars

\* An approval was applied to a payment whose order is 'Completed', and the
\* order is still 'Completed'.
C5_Witness ==
  /\ res.op = "updatePayment" /\ res.code = 200
  /\ payments # <<>>
  /\ payments[1].status = "Approved"
  /\ OrderExists(payments[1].orderId)
  /\ orders[payments[1].orderId].status = "Completed"

\* C6: a refund request with all fields present on an order whose status is
\* 'Refunded' is answered 409 Conflict, stores no Refund and leaves the
\* order 'Refunded'.
C6_RefundedOrderRefused ==
  [][\A b \in RefundBodies :
       (/\ b.fields = "ok"
        /\ OrderExists(b.orderId)
        /\ orders[b.orderId].status = "Refunded"
        /\ RefundRequest(b))
       => /\ res'.code = 409
          /\ refunds' = refunds
          /\ orders' = orders]_vars

\* A refund request was refused with 409 and the order is 'Refunded'.
C6_Witness ==
  /\ res.op = "refundRequests" /\ res.code = 409
  /\ \E o \in DOMAIN orders : orders[o].status = "Refunded"

\* C7: a refund request with all fields present on an existing order whose
\* status is not 'Refunded' succeeds, stores a 'Pending' Refund and leaves
\* the order 'Refund Pending'.
C7_RefundRequestSucceeds ==
  [][\A b \in RefundBodies :
       (/\ b.fields = "ok"
        /\ OrderExists(b.orderId)
        /\ orders[b.orderId].status # "Refunded"
        /\ RefundRequest(b))
       => /\ res'.code = 201
          /\ Len(refunds') = Len(refunds) + 1
          /\ refunds'[Len(refunds')].status = "Pending"
          /\ orders'[b.orderId].status = "Refund Pending"]_vars

\* C8: reviewing an existing refund as Approved leaves the referenced order
\* 'Refunded', and as Rejected leaves it 'Refund Rejected', whatever the
\* order's status was.
C8_RefundReviewSetsOrderStatus ==
  [][\A id \in RefundIdParams, status \in {"Approved", "Rejected"} :
       (/\ RefundExists(id)
        /\ OrderExists(refunds[id].orderId)
        /\ UpdateRefund(id, status))
       => /\ refunds'[id].status = status
          /\ orders'[refunds[id].orderId].status =
               (IF status = "Approved" THEN "Refunded" ELSE "Refund Rejected")]_vars

\* A refund was reviewed as Rejected and its order is 'Refund Rejected'.
C8_Witness ==
  /\ res.op = "updateRefund" /\ res.code = 200
  /\ refunds # <<>>
  /\ refunds[1].status = "Rejected"
  /\ OrderExists(refunds[1].orderId)
  /\ orders[refunds[1].orderId].status = "Refund Rejected"

\* C9: a refund review whose status is neither Approved nor Rejected is
\* answered 400, changes no Refund and no Order, and calls sendEmail for
\* nobody.
C9_InvalidReviewStatusMutatesNothing ==
  [][\A id \in RefundIdParams, status \in RefundStatusInputs \ {"Approved", "Rejected"} :
       UpdateRefund(id, status)
       => /\ res'.code = 400
          /\ refunds' = refunds
          /\ orders' = orders
          /\ res'.notified = {}]_vars

\* A review of a stored refund was refused for its status.
C9_Witness ==
  /\ res.op = "updateRefund" /\ res.code = 400
  /\ res.msg = "Invalid status provided."
  /\ refunds # <<>>
  /\ OrderExists(refunds[1].orderId)

\* C10: along the scenario (create order O; submit payment P1 by paypal
\* with transaction T1; approve P1; request refund R1 for O; approve R1;
\* request a refund for O again) O is in turn Pending, Payment Pending,
\* In Progress, Refund Pending, Refunded, and the last request is answered
\* 409 Conflict.
C10_Scenario ==
  /\ scen = "created" => orders[1].status = "Pending"
  /\ scen = "paid" => orders[1].status = "Payment Pending"
  /\ scen = "approved" => orders[1].status = "In Progress"
  /\ scen = "refundRequested" => orders[1].status = "Refund Pending"
  /\ scen = "refundReviewed" => orders[1].status = "Refunded"
  /\ scen = "refundAgain" => res.code = 409

\* The four statuses the specification calls terminal.
TerminalStatuses == {"Refunded", "Completed", "Cancelled", "Failed"}

\* The routes that change an order as a side effect (every route but the
\* manual order routes).
AutomaticOps == {"createPayment", "updatePayment", "refundRequests", "updateRefund"}

C12_TerminalStatusKept ==
  [][res'.op \in AutomaticOps =>
       \A o \in DOMAIN orders :
         (orders[o].status \in TerminalStatuses /\ o \in DOMAIN orders')
         => orders'[o].status = orders[o].status]_vars

\* A stored Payment has this transactionId, under any paymentMethod.
TransactionStored(txn) ==
  \E i \in DOMAIN payments : payments[i].transactionId = txn

\* C13: a Payment is stored only for an order that exists when the
\* submission is handled.
C13_PaymentReferencesExistingOrder ==
  [][(res'.op = "createPayment" /\ payments' # payments)
       => OrderExists(payments'[Len(payments')].orderId)]_vars

\* C14: a well-formed submission with a new transactionId whose orderId
\* matches no stored order stores the Payment, creates and changes no order,
\* and is answered 201.
C14_PaymentKeptWithoutOrder ==
  [][res'.op = "createPayment" =>
       \A b \in PaymentBodies :
         (/\ WellFormedPayment(b)
          /\ ~OrderExists(b.orderId)
          /\ ~TransactionStored(b.transactionId)
          /\ CreatePayment(b))
         => /\ Len(payments') = Len(payments) + 1
            /\ SubSeq(payments', 1, Len(payments)) = payments
            /\ payments'[Len(payments')].orderId = b.orderId
            /\ orders' = orders
            /\ res'.code = 201]_vars

\* A submission was answered 201 and the Payment it stored names an order
\* that is not in the store.
C14_Witness ==
  /\ res.op = "createPayment" /\ res.code = 201
  /\ payments # <<>>
  /\ ~OrderExists(payments[Len(payments)].orderId)

\* C15: a payment review with status Rejected changes no order.
C15_RejectedReviewKeepsOrder ==
  [][\A id \in PaymentIdParams, u \in PaymentUpdates :
       (u.status = "Rejected" /\ UpdatePayment(id, u)) => orders' = orders]_vars

\* A payment was reviewed as Rejected and the order it names is still
\* 'Payment Pending'.
C15_Witness ==
  /\ res.op = "updatePayment" /\ res.code = 200
  /\ payments # <<>>
  /\ payments[1].status = "Rejected"
  /\ OrderExists(payments[1].orderId)
  /\ orders[payments[1].orderId].status = "Payment Pending"

\* C16: a payment review whose id matches no stored Payment changes no
\* Payment and no Order and calls sendEmail for nobody; when the id is a
\* valid ObjectId and the body's status (if any) is of the enum, it is
\* answered 404.
C16_UnknownPaymentNotFound ==
  [][\A id \in PaymentIdParams, u \in PaymentUpdates :
       (~PaymentExists(id) /\ UpdatePayment(id, u))
       => /\ payments' = payments
          /\ orders' = orders
          /\ res'.notified = {}
          /\ res'.code # 200
          /\ (IsValidObjectId(id) /\ u.status \in ReviewStatusEnum \cup {""})
               => res'.code = 404]_vars

\* A review of an unknown payment id was answered 404 while a Payment and
\* the order it names are stored.
C16_Witness ==
  /\ res.op = "updatePayment" /\ res.code = 404
  /\ payments # <<>>
  /\ OrderExists(payments[1].orderId)

\* C17: a refund request with all fields present whose orderId is a valid
\* ObjectId of no stored order is answered 404 and stores no Refund; a
\* refund review (Approved or Rejected) whose id is a valid ObjectId of no
\* stored Refund is answered 404 and changes no Order.
C17_UnknownOrderOrRefundNotFound ==
  [][/\ \A b \in RefundBodies :
          (/\ b.fields = "ok"
           /\ IsValidObjectId(b.orderId)
           /\ ~OrderExists(b.orderId)
           /\ RefundRequest(b))
          => /\ res'.code = 404
             /\ refunds' = refunds
             /\ orders' = orders
     /\ \A id \in RefundIdParams, status \in {"Approved", "Rejected"} :
          (/\ IsValidObjectId(id)
           /\ ~RefundExists(id)
           /\ UpdateRefund(id, status))
          => /\ res'.code = 404
             /\ refunds' = refunds
             /\ orders' = orders]_vars

\* A refund request naming no stored order was answered 404 while another
\* order is stored, and no Refund exists.
C17_Witness ==
  /\ res.op = "refundRequests" /\ res.code = 404
  /\ DOMAIN orders # {}
  /\ refunds = <<>>

\* C18: no step of the payment-review handler writes 'In Progress' to an
\* order whose stored status is Completed, Cancelled, Refunded or Failed at
\* the moment of the write, however the requests interleave.
C18_ApprovalNeverRegressesTerminal ==
  [][/\ \A h \in inflight :
          (UpdatePaymentSave(h) /\ OrderExists(h.order))
          => ~(/\ orders[h.order].status \in TerminalStatuses
               /\ orders'[h.order].status = "In Progress")
     /\ \A id \in DOMAIN payments, u \in RacePaymentUpdates :
          UpdatePayment(id, u)
          => \A o \in DOMAIN orders :
               ~(/\ orders[o].status \in TerminalStatuses
                 /\ orders'[o].status = "In Progress")]_vars

\* C19: however the requests interleave, no step of the refund-request
\* handler stores a Refund for an order whose stored status is 'Refunded'
\* at that moment, and none overwrites a stored 'Refunded' with
\* 'Refund Pending'.
C19_NoRefundForRefundedOrder ==
  [][/\ \A h \in inflight :
          (RefundRequestContinue(h) /\ OrderExists(h.order)
             /\ orders[h.order].status = "Refunded")
          => /\ refunds' = refunds
             /\ orders'[h.order].status = "Refunded"
     /\ \A b \in RaceRefundBodies :
          (RefundRequest(b) /\ OrderExists(b.orderId)
             /\ orders[b.orderId].status = "Refunded")
          => /\ refunds' = refunds
             /\ orders'[b.orderId].status = "Refunded"]_vars

\* A refund request that had read its order before the order became
\* 'Refunded' has resumed and answered: no Refund is stored and the order
\* is still 'Refunded'.
C19_Witness ==
  /\ res = RefundValidationError
  /\ inflight = {}
  /\ refunds = <<>>
  /\ DOMAIN orders # {}
  /\ \A o \in DOMAIN orders : orders[o].status = "Refunded"

\* C20: sendEmail hands back a result and never raises, whatever happens
\* at the send; and a payment submission, payment review, refund review or
\* manual order update that called sendEmail and is a step under one outcome
\* of its sends is the same step (same records stored, same response) under
\* every other.
C20_NotificationOutcomeIrrelevant ==
  [][/\ \A outcome \in MailOutcomes :
          /\ ~SendEmail(outcome).raised
          /\ SendEmail(outcome).success \in BOOLEAN
     /\ (res'.op = "createPayment" /\ res'.notified # {}) =>
          \A b \in WellFormedPaymentBodies :
            CreatePayment(b)
            => \A mail \in Mails : CreatePaymentWithMail(b, {mail})
     /\ (res'.op = "updatePayment" /\ res'.notified # {}) =>
          \A id \in DOMAIN payments, u \in NotifiedPaymentUpdates :
            UpdatePayment(id, u)
            => \A mail \in Mails : UpdatePaymentWithMail(id, u, {mail})
     /\ (res'.op = "updateRefund" /\ res'.notified # {}) =>
          \A id \in DOMAIN refunds, status \in {"Approved", "Rejected"} :
            UpdateRefund(id, status)
            => \A mail \in Mails : UpdateRefundWithMail(id, status, {mail})
     /\ (res'.op = "updateOrder" /\ res'.notified # {}) =>
          \A id \in DOMAIN orders, status \in OrderStatusEnum \cup {""} :
            UpdateOrder(id, status)
            => \A mail \in Mails : UpdateOrderWithMail(id, status, {mail})]_vars

\* A payment was approved, its order moved to 'In Progress', and sendEmail
\* was called for the client and the admin before the 200 response.
C20_Witness ==
  /\ res.op = "updatePayment" /\ res.code = 200
  /\ res.notified = {"client", "admin"}
  /\ payments # <<>>
  /\ payments[1].status = "Approved"
  /\ OrderExists(payments[1].orderId)
  /\ orders[payments[1].orderId].status = "In Progress"

\* C21: in a request that writes an order's status and notifies (payment
\* submission, payment review, refund review), the write of the order is
\* committed before any sendEmail call of that request is started, and each
\* recipient gets at most one sendEmail call per request.
C21_OrderWrittenBeforeNotified ==
  /\ \A i, j \in DOMAIN log :
       (log[i].kind = "send" /\ log[j] = Wrote("order")) => j < i
  /\ \A i, j \in DOMAIN log :
       (log[i].kind = "send" /\ log[i] = log[j]) => i = j

\* A payment submission ran to its response: Payment stored, order saved,
\* then the client's mail, then the admin's.
C21_Witness ==
  /\ inflight = {}
  /\ res.op = "createPayment" /\ res.code = 201
  /\ log = <<Wrote("payment"), Wrote("order"), Sent("client"), Sent("admin")>>
  /\ \E id \in DOMAIN orders : orders[id].status = "Payment Pending"

\* C22: a payment or refund submission answers with success exactly when its
\* Payment / Refund record was stored: once the record is stored, a failure
\* of the order update that follows does not make the response an error, and
\* an error response means no record was stored.
C22_SuccessIffPersisted ==
  [][/\ (inflight' = inflight /\ res'.op = "createPayment") =>
          (res'.code = 201 <=> Len(payments') > Len(payments))
     /\ (inflight' = inflight /\ res'.op = "refundRequests") =>
          (res'.code = 201 <=> Len(refunds') > Len(refunds))
     /\ \A h \in inflight :
          (h.op = "createPayment" /\ inflight' = {}) =>
            (res'.code = 201 <=> \E i \in DOMAIN log' : log'[i] = Wrote("payment"))]_vars

\* C23: once stored, a Payment keeps its orderId, paymentMethod and
\* transactionId and a Refund keeps its userId and orderId, whatever request
\* is handled (a review changes only status and remarks), and no Payment or
\* Refund is ever deleted.
C23_ReviewChangesOnlyStatus ==
  [][/\ DOMAIN payments \subseteq DOMAIN payments'
     /\ DOMAIN refunds \subseteq DOMAIN refunds'
     /\ \A id \in DOMAIN payments :
          /\ payments'[id].orderId = payments[id].orderId
          /\ payments'[id].paymentMethod = payments[id].paymentMethod
          /\ payments'[id].transactionId = payments[id].transactionId
     /\ \A id \in DOMAIN refunds :
          /\ refunds'[id].orderId = refunds[id].orderId
          /\ refunds'[id].userId = refunds[id].userId]_vars

\* C24: deleting an order removes that Order document and nothing else:
\* every Payment and Refund, those that reference it included, stays stored
\* unchanged; deleting an order that is not stored answers 404 and changes
\* nothing.
C24_DeleteOrderDoesNotCascade ==
  [][res'.op = "deleteOrder" =>
       \A id \in OrderIdParams :
         DeleteOrder(id) =>
           /\ payments' = payments
           /\ refunds' = refunds
           /\ OrderExists(id) =>
                /\ res'.code = 200
                /\ DOMAIN orders' = DOMAIN orders \ {id}
                /\ \A j \in DOMAIN orders' : orders'[j] = orders[j]
           /\ (IsValidObjectId(id) /\ ~OrderExists(id)) =>
                /\ res'.code = 404
                /\ orders' = orders]_vars

\* The order was deleted; the Refund and a Payment that reference it are
\* still stored.
C24_Witness ==
  /\ res.op = "deleteOrder" /\ res.code = 200
  /\ ~OrderExists(1)
  /\ \E i \in DOMAIN refunds : refunds[i].orderId = 1
  /\ \E i \in DOMAIN payments : payments[i].orderId = 1

\* C25 (as claimed): the manual order update enforces no state machine: for
\* every status the order has and every requested status t, the update
\* with status t succeeds and leaves the order with status t.
C25_ManualUpdateAnyStatus ==
  [][res'.op = "updateOrder" =>
       \A id \in DOMAIN orders, t \in OrderStatusInputs \ {""} :
         UpdateOrder(id, t) =>
           /\ res'.code = 200
           /\ orders'[id].status = t]_vars

\* C25 (amended): for every status the order has and every requested status
\* t of the Order enum, the manual update with status t succeeds and leaves
\* the order with status t.
C25_ManualUpdateAnyEnumStatus ==
  [][res'.op = "updateOrder" =>
       \A id \in DOMAIN orders, t \in OrderStatusEnum :
         UpdateOrder(id, t) =>
           /\ res'.code = 200
           /\ orders'[id].status = t]_vars

\* The refund of order 1 was approved (which set the order to 'Refunded'),
\* and a manual update has since put the order back to 'Pending'.
C25_Witness ==
  /\ res.op = "updateOrder" /\ res.code = 200
  /\ OrderExists(1) /\ orders[1].status = "Pending"
  /\ \E i \in DOMAIN refunds : refunds[i].orderId = 1 /\ refunds[i].status = "Approved"

\* C26: after any sequence of order creations and manual order updates,
\* every stored order has price >= 0 and requiredFollowers >= 1.
C26_OrderNumbersInBounds ==
  \A id \in DOMAIN orders :
    /\ orders[id].price >= 0
    /\ orders[id].requiredFollowers >= 1

\* C27: a payment update that leaves the Payment's status as it was (a
\* remarks-only update of an Approved payment, say) leaves every order's
\* status unchanged.
C27_UnchangedPaymentStatusKeepsOrder ==
  [][res'.op = "updatePayment" =>
       \A id \in DOMAIN payments, u \in PaymentUpdates :
         (/\ UpdatePayment(id, u)
          /\ payments'[id].status = payments[id].status)
         => orders' = orders]_vars

C30_PasswordChangeNeedsOldPassword ==
  [][res'.op = "update" =>
       \A id \in DOMAIN users, b \in UserUpdates :
         UpdateUser(id, b) =>
           /\ users'[id].password # users[id].password =>
                (b.oldPassword # "" /\ PasswordMatches(b.oldPassword, users[id].password))
           /\ (b.oldPassword # "" /\ ~PasswordMatches(b.oldPassword, users[id].password)) =>
                (res'.code >= 400 /\ users' = users)]_vars

====
